---- MODULE Spec2Model ----
(***************************************************************************)
(* The Walmart demand-forecasting dashboards as state machines.            *)
(*                                                                         *)
(* Two Streamlit scripts are modelled, each re-run from the top whenever   *)
(* a widget changes:                                                       *)
(*   "grid"  src/frontend/streamlit_app.py           (4-plot sensitivity)  *)
(*   "sel"   src/frontend/frontend/streamlit_app.py  (selectbox, 1 plot)   *)
(* The grid script still holds merge-conflict markers; its HEAD side is    *)
(* the one modelled (the other side is page styling and a second KPI row). *)
(*                                                                         *)
(* float64 values are modelled as decimal fixed-point integers with Scale  *)
(* units per 1.0, each arithmetic operation rounding its result to that    *)
(* grid, plus codes for NaN and the infinities.  Decimal constants of the  *)
(* source (0.05, 1.15, 3.5, ...) are exact on the grid.                    *)
(***************************************************************************)
EXTENDS Integers, Sequences, FiniteSets, TLC

(***************************************************************************)
(* float64                                                                 *)
(***************************************************************************)
Scale == 100 * 100

NaN == -2000000001
PosInf == -2000000002
NegInf == -2000000003
\* A script variable that the run never assigned.
Unset == -2000000004

IsSpecial(a) == a < -2000000000
IsNumber(a) == ~IsSpecial(a)
IsInf(a) == a = PosInf \/ a = NegInf

F(n) == n * Scale
\* n thousandths: Milli(3500) is 3.5 and Milli(50) is 0.05
Milli(n) == n * (Scale \div 1000)

Sign(a) == IF a = PosInf THEN 1
           ELSE IF a = NegInf THEN -1
           ELSE IF a > 0 THEN 1 ELSE IF a < 0 THEN -1 ELSE 0

Neg(a) ==
  IF a < -2000000000
  THEN IF a = PosInf THEN NegInf ELSE IF a = NegInf THEN PosInf ELSE NaN
  ELSE -a

Add(a, b) ==
  IF a < -2000000000 \/ b < -2000000000
  THEN IF a = NaN \/ b = NaN THEN NaN
       ELSE IF IsInf(a) /\ IsInf(b) THEN (IF a = b THEN a ELSE NaN)
       ELSE IF IsInf(a) THEN a ELSE b
  ELSE a + b

Sub(a, b) ==
  IF a < -2000000000 \/ b < -2000000000 THEN Add(a, Neg(b)) ELSE a - b

\* a * b of two numbers rounded to the grid, computed without leaving 32 bits.
MulNumbers(a, b) ==
  (a \div Scale) * b + (a % Scale) * (b \div Scale)
  + ((a % Scale) * (b % Scale) + Scale \div 2) \div Scale

Mul(a, b) ==
  IF a < -2000000000 \/ b < -2000000000
  THEN IF a = NaN \/ b = NaN \/ a = 0 \/ b = 0 THEN NaN
       ELSE IF Sign(a) * Sign(b) > 0 THEN PosInf ELSE NegInf
  ELSE MulNumbers(a, b)

\* The digits of r / b after the point, for 0 <= r < b.
RECURSIVE Digits(_, _, _)
Digits(r, b, unit) ==
  IF unit = 0 THEN 0
  ELSE ((r * 10) \div b) * unit + Digits((r * 10) % b, b, unit \div 10)

\* a / b: x/0 is an infinity and 0/0 is NaN, as numpy's float64 division gives.
Div(a, b) ==
  IF a < -2000000000 \/ b < -2000000000
  THEN IF a = NaN \/ b = NaN THEN NaN
       ELSE IF IsInf(a) THEN (IF IsInf(b) THEN NaN
                              ELSE IF Sign(a) * (IF b < 0 THEN -1 ELSE 1) > 0
                                   THEN PosInf ELSE NegInf)
       ELSE 0
  ELSE IF b > 0 THEN (a \div b) * Scale + Digits(a % b, b, Scale \div 10)
  ELSE IF b < 0 THEN ((-a) \div (-b)) * Scale + Digits((-a) % (-b), -b, Scale \div 10)
  ELSE IF a = 0 THEN NaN ELSE IF a > 0 THEN PosInf ELSE NegInf

\* np.exp, by its power series: sum of x^k / k!
RECURSIVE ExpSeries(_, _, _)
ExpSeries(x, k, term) ==
  IF term = 0 THEN 0
  ELSE term + ExpSeries(x, k + 1, (2 * MulNumbers(term, x) + k) \div (2 * k))

Exp(x) ==
  IF x < -2000000000
  THEN IF x = PosInf THEN PosInf ELSE IF x = NegInf THEN 0 ELSE NaN
  ELSE ExpSeries(x, 1, Scale)

\* np.linspace(start, stop, num): start + k * step, the last sample set to stop.
Linspace(start, stop, num) ==
  LET step == Div(stop - start, F(num - 1))
  IN [k \in 0..(num - 1) |-> IF k = num - 1 THEN stop ELSE start + k * step]

(***************************************************************************)
(* The history table and the widgets' sample values                        *)
(***************************************************************************)
\* Slider positions explored besides the default: the given number of evenly
\* spaced positions, starting at the end of the range where the slider's
\* factor is smallest and reaching the other end from two positions on.
TempSamples == 1
FuelSamples == 1
CpiSamples == 1
UnempSamples == 1

Positions(first, last, n) ==
  {first + ((last - first) * k) \div (IF n > 1 THEN n - 1 ELSE 1) : k \in 0..(n - 1)}

\* st.slider("Temperature", 20, 120, 70), st.slider("Fuel Price", 2.0, 5.0, 3.5, step=0.1),
\* st.slider("CPI", 200, 300, 220), st.slider("Unemployment", 3.0, 15.0, 7.0, step=0.1)
TemperatureValues == {F(v) : v \in Positions(120, 20, TempSamples) \cup {70}}
FuelPriceValues == {Milli(100 * v) : v \in Positions(50, 20, FuelSamples) \cup {35}}
CpiValues == {F(v) : v \in Positions(200, 300, CpiSamples) \cup {220}}
UnemploymentValues == {Milli(100 * v) : v \in Positions(150, 30, UnempSamples) \cup {70}}

Row(s, w) == [Store |-> s, Weekly_Sales |-> w]
\* store_history.csv: stores 1 and 3 only, store 3 with no sales at all
DfGap == <<Row(1, 1000), Row(1, 2000), Row(3, 0), Row(3, 0)>>
\* store_history.csv: no store 1, first row not the smallest store
DfHigh == <<Row(3, 1000), Row(2, 3000), Row(2, 2000)>>
Datasets == {DfGap, DfHigh}

Scripts == {"grid", "sel"}
Dimensions == <<"Temperature", "Fuel Price", "CPI", "Unemployment">>
DimensionSet == {Dimensions[i] : i \in 1..4}

StoreIds(df) == {df[i].Store : i \in DOMAIN df}
\* Mutant: the lower limit hard-coded instead of read from the table.
min_value_one(df) == 1
\* int(df["Store"].min()), int(df["Store"].max())
min_value(df) == CHOOSE s \in StoreIds(df) : \A o \in StoreIds(df) : s <= o
max_value(df) == CHOOSE s \in StoreIds(df) : \A o \in StoreIds(df) : s >= o

\* The default value of the Store ID number_input.
Grid_value(df) == 1
Sel_value(df) == df[1].Store
value(script, df) == IF script = "grid" THEN Grid_value(df) ELSE Sel_value(df)

\* st.number_input refuses a default outside [min_value, max_value]
\* (StreamlitAPIException) and lets the user pick no value outside it.
NumberInputRaises(lo, hi, v) == v < lo \/ v > hi
NumberInputChoices(lo, hi) == lo..hi

\* df[df["Store"] == store_id]
store_df(df, store_id) == SelectSeq(df, LAMBDA r : r.Store = store_id)

RECURSIVE SumSales(_)
SumSales(rows) ==
  IF rows = <<>> THEN 0 ELSE Head(rows).Weekly_Sales + SumSales(Tail(rows))

\* Series.mean(): NaN for an empty series
mean(rows) ==
  IF Len(rows) = 0 THEN NaN ELSE Div(F(SumSales(rows)), F(Len(rows)))

(***************************************************************************)
(* src/frontend/streamlit_app.py ("grid")                                  *)
(***************************************************************************)
\* Mutant: the square dropped from the exponent.
Grid_get_temp_factor_unsquared(t) ==
  LET optimal_t == F(70)
      width == 40
  IN Exp(Div(Neg(Sub(t, optimal_t)), F(2 * width * width)))

Grid_get_temp_factor(t) ==
  LET optimal_t == F(70)
      width == 40
  IN Exp(Div(Neg(Mul(Sub(t, optimal_t), Sub(t, optimal_t))), F(2 * width * width)))

\* Mutant: the factor floored at zero.
Grid_f_factor_clamped(f) ==
  LET raw == Sub(F(1), Mul(Sub(f, Milli(3500)), Milli(50)))
  IN IF raw < 0 THEN 0 ELSE raw

Grid_f_factor(f) == Sub(F(1), Mul(Sub(f, Milli(3500)), Milli(50)))

Grid_calculate_sales(base_sales, t, f, c, u, h) ==
  LET t_factor == Grid_get_temp_factor(t)
      h_factor == IF h THEN Milli(1150) ELSE F(1)
      f_factor == Grid_f_factor(f)
      c_factor == Add(F(1), Mul(Sub(c, F(220)), Milli(2)))
      u_factor == Sub(F(1), Mul(Sub(u, F(7)), Milli(40)))
  IN Mul(Mul(Mul(Mul(Mul(base_sales, h_factor), t_factor), f_factor), c_factor), u_factor)

\* (predicted_sales - base_sales) / base_sales * 100, the st.metric delta
Grid_delta(predicted_sales, base_sales) ==
  Mul(Div(Sub(predicted_sales, base_sales), base_sales), F(100))

Grid_range(dim) ==
  CASE dim = "Temperature" -> Linspace(F(0), F(140), 100)
    [] dim = "Fuel Price" -> Linspace(F(2), F(5), 50)
    [] dim = "CPI" -> Linspace(F(200), F(300), 50)
    [] dim = "Unemployment" -> Linspace(F(3), F(15), 50)

\* Mutant: the CPI plot's lambda passing x in the unemployment position.
Grid_func_swapped(dim, x, base_sales, temperature, fuel_price, cpi, unemployment, holiday) ==
  CASE dim = "Temperature" ->
         Grid_calculate_sales(base_sales, x, fuel_price, cpi, unemployment, holiday)
    [] dim = "Fuel Price" ->
         Grid_calculate_sales(base_sales, temperature, x, cpi, unemployment, holiday)
    [] dim = "CPI" ->
         Grid_calculate_sales(base_sales, temperature, fuel_price, cpi, x, holiday)
    [] dim = "Unemployment" ->
         Grid_calculate_sales(base_sales, temperature, fuel_price, cpi, x, holiday)

\* plots[...]["func"]: the lambda of each plot
Grid_func(dim, x, base_sales, temperature, fuel_price, cpi, unemployment, holiday) ==
  CASE dim = "Temperature" ->
         Grid_calculate_sales(base_sales, x, fuel_price, cpi, unemployment, holiday)
    [] dim = "Fuel Price" ->
         Grid_calculate_sales(base_sales, temperature, x, cpi, unemployment, holiday)
    [] dim = "CPI" ->
         Grid_calculate_sales(base_sales, temperature, fuel_price, x, unemployment, holiday)
    [] dim = "Unemployment" ->
         Grid_calculate_sales(base_sales, temperature, fuel_price, cpi, x, holiday)

\* The loop over plots computing y_vals for each.
Grid_y_vals(base_sales, temperature, fuel_price, cpi, unemployment, holiday) ==
  [dim \in DimensionSet |->
     LET range == Grid_range(dim)
     IN [k \in DOMAIN range |->
           Grid_func(dim, range[k], base_sales, temperature, fuel_price, cpi,
                     unemployment, holiday)]]

\* One run of the script from the widget values to the last plot.
Grid_run(df, store_id, holiday, temperature, fuel_price, cpi, unemployment) ==
  LET rows == store_df(df, store_id)
      base == mean(rows)
      predicted == Grid_calculate_sales(base, temperature, fuel_price, cpi,
                                        unemployment, holiday)
  IN [pc |-> "done",
      base_sales |-> base,
      predicted_sales |-> predicted,
      delta |-> Grid_delta(predicted, base),
      y_vals |-> Grid_y_vals(base, temperature, fuel_price, cpi, unemployment, holiday)]

(***************************************************************************)
(* src/frontend/frontend/streamlit_app.py ("sel")                          *)
(***************************************************************************)
Sel_get_temp_factor(t) ==
  LET optimal_t == F(70)
      width == 40
  IN Exp(Div(Neg(Mul(Sub(t, optimal_t), Sub(t, optimal_t))), F(2 * width * width)))

Sel_holiday_factor(holiday) == IF holiday THEN Milli(1150) ELSE F(1)
Sel_fuel_factor(fuel_price) == Sub(F(1), Mul(Sub(fuel_price, Milli(3500)), Milli(50)))
\* Mutant: the CPI reference taken as 200, the slider's lower end.
Sel_cpi_factor_ref200(cpi) == Add(F(1), Mul(Sub(cpi, F(200)), Milli(2)))
Sel_cpi_factor(cpi) == Add(F(1), Mul(Sub(cpi, F(220)), Milli(2)))
\* Mutant: a slope of 0.14 for 0.04.
Sel_unemp_factor_steep(unemployment) == Sub(F(1), Mul(Sub(unemployment, F(7)), Milli(140)))
Sel_unemp_factor(unemployment) == Sub(F(1), Mul(Sub(unemployment, F(7)), Milli(40)))

Sel_predicted_sales(base_sales, holiday, temperature, fuel_price, cpi, unemployment) ==
  LET temp_factor == Sel_get_temp_factor(temperature)
      holiday_factor == Sel_holiday_factor(holiday)
      fuel_factor == Sel_fuel_factor(fuel_price)
      cpi_factor == Sel_cpi_factor(cpi)
      unemp_factor == Sel_unemp_factor(unemployment)
  IN Mul(Mul(Mul(Mul(Mul(base_sales, holiday_factor), temp_factor), fuel_factor),
             cpi_factor), unemp_factor)

Sel_delta(predicted_sales, base_sales) ==
  Mul(Div(Sub(predicted_sales, base_sales), base_sales), F(100))

Sel_x_range(param_choice) ==
  CASE param_choice = "Temperature" -> Linspace(F(0), F(140), 100)
    [] param_choice = "Fuel Price" -> Linspace(F(2), F(5), 50)
    [] param_choice = "CPI" -> Linspace(F(200), F(300), 50)
    [] OTHER -> Linspace(F(3), F(15), 50)

\* The if/elif chain computing y_vals for the selected parameter.
Sel_y_vals(param_choice, base_sales, holiday, temperature, fuel_price, cpi, unemployment) ==
  LET temp_factor == Sel_get_temp_factor(temperature)
      holiday_factor == Sel_holiday_factor(holiday)
      fuel_factor == Sel_fuel_factor(fuel_price)
      cpi_factor == Sel_cpi_factor(cpi)
      unemp_factor == Sel_unemp_factor(unemployment)
      x_range == Sel_x_range(param_choice)
  IN [k \in DOMAIN x_range |->
       LET x == x_range[k]
       IN CASE param_choice = "Temperature" ->
                 Mul(Mul(Mul(Mul(Mul(base_sales, holiday_factor), Sel_get_temp_factor(x)),
                             fuel_factor), cpi_factor), unemp_factor)
            [] param_choice = "Fuel Price" ->
                 Mul(Mul(Mul(Mul(Mul(base_sales, holiday_factor), temp_factor),
                             Sub(F(1), Mul(Sub(x, Milli(3500)), Milli(50)))),
                         cpi_factor), unemp_factor)
            [] param_choice = "CPI" ->
                 Mul(Mul(Mul(Mul(Mul(base_sales, holiday_factor), temp_factor),
                             fuel_factor),
                         Add(F(1), Mul(Sub(x, F(220)), Milli(2)))), unemp_factor)
            [] OTHER ->
                 Mul(Mul(Mul(Mul(Mul(base_sales, holiday_factor), temp_factor),
                             fuel_factor), cpi_factor),
                     Sub(F(1), Mul(Sub(x, F(7)), Milli(40))))]

\* One run of the script.  With no record for the store it stops (st.stop)
\* before base_sales; the selectbox is then never drawn and loses its value.
Sel_run(df, store_id, holiday, temperature, fuel_price, cpi, unemployment, param_choice) ==
  LET rows == store_df(df, store_id)
      base == mean(rows)
      predicted == Sel_predicted_sales(base, holiday, temperature, fuel_price, cpi,
                                       unemployment)
  IN IF Len(rows) = 0
     THEN [pc |-> "stopped",
           base_sales |-> Unset,
           predicted_sales |-> Unset,
           delta |-> Unset,
           y_vals |-> <<>>]
     ELSE [pc |-> "done",
           base_sales |-> base,
           predicted_sales |-> predicted,
           delta |-> Sel_delta(predicted, base),
           y_vals |-> [dim \in {param_choice} |->
                         Sel_y_vals(param_choice, base, holiday, temperature,
                                    fuel_price, cpi, unemployment)]]

(***************************************************************************)
(* The dashboards: a first run, then one run per widget change             *)
(***************************************************************************)
VARIABLES
  script,          \* which dashboard is served
  df,              \* load_data(), cached for the session
  ml_model,        \* load_ml_model(): "loaded", "None", or "absent" (sel)
  store_id, holiday, temperature, fuel_price, cpi, unemployment, param_choice,
  run,             \* the script variables of the last run: pc ("done",
                   \* "stopped" by st.stop, "exception", "idle"), base_sales,
                   \* predicted_sales, delta, y_vals
  call             \* SpecFn: the engine function called directly

vars == <<script, df, ml_model, store_id, holiday, temperature, fuel_price, cpi,
          unemployment, param_choice, run, call>>

NoCall == [fn |-> "none"]

NoRun(pc) ==
  [pc |-> pc, base_sales |-> Unset, predicted_sales |-> Unset, delta |-> Unset,
   y_vals |-> <<>>]

Run(s, d, sid, h, t, f, c, u, p) ==
  IF s = "grid" THEN Grid_run(d, sid, h, t, f, c, u)
  ELSE Sel_run(d, sid, h, t, f, c, u, p)

\* A selectbox that was not drawn in a run starts from its first option again.
ParamAfter(s, r, p) ==
  IF s = "grid" THEN "none" ELSE IF r.pc = "done" THEN p ELSE Dimensions[1]

Init ==
  /\ script \in Scripts
  /\ df \in Datasets
  /\ ml_model \in (IF script = "grid" THEN {"loaded", "None"} ELSE {"absent"})
  /\ call = NoCall
  /\ holiday = FALSE
  /\ temperature = F(70)
  /\ fuel_price = Milli(3500)
  /\ cpi = F(220)
  /\ unemployment = F(7)
  /\ IF NumberInputRaises(min_value(df), max_value(df), value(script, df))
     THEN /\ store_id = Unset
          /\ run = NoRun("exception")
          /\ param_choice = "none"
     ELSE /\ store_id = value(script, df)
          /\ run = Run(script, df, store_id, holiday, temperature, fuel_price, cpi,
                       unemployment, Dimensions[1])
          /\ param_choice = ParamAfter(script, run, Dimensions[1])

\* Mutant: the prediction kept from the previous completed run (a result
\* cached across reruns) instead of the one just computed.
Rerun_stale(sid, h, t, f, c, u, p) ==
  /\ store_id' = sid
  /\ holiday' = h
  /\ temperature' = t
  /\ fuel_price' = f
  /\ cpi' = c
  /\ unemployment' = u
  /\ run' = LET r == Run(script, df, sid, h, t, f, c, u, p)
            IN IF r.pc = "done" /\ run.pc = "done"
               THEN [r EXCEPT !.predicted_sales = run.predicted_sales]
               ELSE r
  /\ param_choice' = ParamAfter(script, run', p)
  /\ UNCHANGED <<script, df, ml_model, call>>

\* The script re-run with the widgets at the given values.
Rerun(sid, h, t, f, c, u, p) ==
  /\ store_id' = sid
  /\ holiday' = h
  /\ temperature' = t
  /\ fuel_price' = f
  /\ cpi' = c
  /\ unemployment' = u
  /\ run' = Run(script, df, sid, h, t, f, c, u, p)
  /\ param_choice' = ParamAfter(script, run', p)
  /\ UNCHANGED <<script, df, ml_model, call>>

Interactive == run.pc \in {"done", "stopped"}

SetStoreId ==
  /\ Interactive
  /\ \E v \in NumberInputChoices(min_value(df), max_value(df)) \ {store_id} :
       Rerun(v, holiday, temperature, fuel_price, cpi, unemployment, param_choice)

ToggleHoliday ==
  /\ Interactive
  /\ Rerun(store_id, ~holiday, temperature, fuel_price, cpi, unemployment, param_choice)

SetTemperature ==
  /\ Interactive
  /\ \E v \in TemperatureValues \ {temperature} :
       Rerun(store_id, holiday, v, fuel_price, cpi, unemployment, param_choice)

SetFuelPrice ==
  /\ Interactive
  /\ \E v \in FuelPriceValues \ {fuel_price} :
       Rerun(store_id, holiday, temperature, v, cpi, unemployment, param_choice)

SetCpi ==
  /\ Interactive
  /\ \E v \in CpiValues \ {cpi} :
       Rerun(store_id, holiday, temperature, fuel_price, v, unemployment, param_choice)

SetUnemployment ==
  /\ Interactive
  /\ \E v \in UnemploymentValues \ {unemployment} :
       Rerun(store_id, holiday, temperature, fuel_price, cpi, v, param_choice)

\* The selectbox exists in the sel script only, below the st.stop.
SelectParam ==
  /\ script = "sel"
  /\ run.pc = "done"
  /\ \E p \in DimensionSet \ {param_choice} :
       Rerun(store_id, holiday, temperature, fuel_price, cpi, unemployment, p)

Next ==
  \/ SetStoreId
  \/ ToggleHoliday
  \/ SetTemperature
  \/ SetFuelPrice
  \/ SetCpi
  \/ SetUnemployment
  \/ SelectParam

Spec == Init /\ [][Next]_vars

(***************************************************************************)
(* The engine's functions called directly, on arguments beyond the ranges  *)
(* the sliders allow                                                       *)
(***************************************************************************)
\* Temperatures 70 - TempFnSpan .. 70 + TempFnSpan degrees, fuel prices
\* 0.0 .. FuelFnTenths / 10 dollars, baselines 0 .. BaselineFnCount units.
TempFnSpan == 70
FuelFnTenths == 300
BaselineFnCount == 6

TempFnDomain == {F(70 + d) : d \in (-TempFnSpan)..TempFnSpan}
FuelFnDomain == {Milli(100 * k) : k \in 0..FuelFnTenths}
BaselineFnDomain == {1234567 * k : k \in 0..BaselineFnCount}

get_temp_factor(s, t) ==
  IF s = "grid" THEN Grid_get_temp_factor(t) ELSE Sel_get_temp_factor(t)

fuel_factor(s, f) ==
  IF s = "grid" THEN Grid_f_factor(f) ELSE Sel_fuel_factor(f)

predict(s, base, h, t, f, c, u) ==
  IF s = "grid" THEN Grid_calculate_sales(base, t, f, c, u, h)
  ELSE Sel_predicted_sales(base, h, t, f, c, u)

DashboardIdle ==
  /\ script = "none"
  /\ df = <<>>
  /\ ml_model = "absent"
  /\ store_id = Unset
  /\ holiday = FALSE
  /\ temperature = F(70)
  /\ fuel_price = Milli(3500)
  /\ cpi = F(220)
  /\ unemployment = F(7)
  /\ param_choice = "none"
  /\ run = NoRun("idle")

dashboard == <<script, df, ml_model, store_id, holiday, temperature, fuel_price,
               cpi, unemployment, param_choice, run>>

\* One call per behaviour: the functions keep nothing between calls.
InitFn == DashboardIdle /\ call = NoCall

Call_get_temp_factor ==
  /\ call = NoCall
  /\ \E s \in Scripts, t \in TempFnDomain :
       call' = [fn |-> "get_temp_factor", script |-> s, args |-> <<t>>,
                ret |-> get_temp_factor(s, t)]
  /\ UNCHANGED dashboard

Call_fuel_factor ==
  /\ call = NoCall
  /\ \E s \in Scripts, f \in FuelFnDomain :
       call' = [fn |-> "fuel_factor", script |-> s, args |-> <<f>>,
                ret |-> fuel_factor(s, f)]
  /\ UNCHANGED dashboard

Call_predict ==
  /\ call = NoCall
  /\ \E s \in Scripts, base \in BaselineFnDomain, h \in BOOLEAN,
        t \in TemperatureValues, f \in FuelPriceValues, c \in CpiValues,
        u \in UnemploymentValues :
       call' = [fn |-> "predict", script |-> s, args |-> <<base, h, t, f, c, u>>,
                ret |-> predict(s, base, h, t, f, c, u)]
  /\ UNCHANGED dashboard

NextFn ==
  \/ Call_get_temp_factor
  \/ Call_fuel_factor
  \/ Call_predict

SpecFn == InitFn /\ [][NextFn]_vars

(***************************************************************************)
(* Vocabulary of the claims                                                *)
(***************************************************************************)
\* spec.md 4.2, Variant B: baseline + 6634.0369 [h] - 196.8391 (t - 70)^2
\* + 11830.0 f - 9.8499 c - 418.9919 u, the coefficients in units of 1/Scale
VariantB(baseline, h, t, f, c, u) ==
  baseline + (IF h THEN 66340369 ELSE 0)
  - MulNumbers(1968391, MulNumbers(t - F(70), t - F(70)))
  + MulNumbers(118300000, f) - MulNumbers(98499, c) - MulNumbers(4189919, u)

\* The inputs of the current run with one dimension replaced by x.
InputsWith(dim, x) ==
  [temperature |-> IF dim = "Temperature" THEN x ELSE temperature,
   fuel_price |-> IF dim = "Fuel Price" THEN x ELSE fuel_price,
   cpi |-> IF dim = "CPI" THEN x ELSE cpi,
   unemployment |-> IF dim = "Unemployment" THEN x ELSE unemployment]

CurrentValue(dim) == InputsWith("none", 0)[
  CASE dim = "Temperature" -> "temperature"
    [] dim = "Fuel Price" -> "fuel_price"
    [] dim = "CPI" -> "cpi"
    [] dim = "Unemployment" -> "unemployment"]

\* The domain a script sweeps for a dimension.
SweptDomain(dim) == IF script = "grid" THEN Grid_range(dim) ELSE Sel_x_range(dim)

Completed == run.pc = "done"
HasBaseline == Completed /\ IsNumber(run.base_sales)

(***************************************************************************)
(* Claims                                                                  *)
(***************************************************************************)

\* C1 (as claimed): in every dashboard script, a run whose store slice has no
\* record fails at the baseline and stops before predicted sales, percent
\* change or any sensitivity curve is computed.
C1_EmptyHistoryStops ==
  (run.pc # "exception" /\ Len(store_df(df, store_id)) = 0)
    => /\ run.pc = "stopped"
       /\ run.predicted_sales = Unset
       /\ run.delta = Unset
       /\ run.y_vals = <<>>

\* C2 (as claimed): with a baseline of zero the percent change is not
\* computed: the run signals an error, and no NaN or infinite percent change
\* is produced.
C2_ZeroBaselineSignals ==
  run.base_sales = 0 => (run.pc = "exception" /\ run.delta = Unset)

\* C3: every point of every sensitivity curve a run plots is the script's
\* predict for the run's baseline and inputs with only the swept dimension
\* replaced by the point's x, the holiday flag and the other three inputs at
\* their current values; where x is the dimension's current value the point
\* is the run's predicted_sales.
C3_CurveIsPredictAtX ==
  HasBaseline =>
    \A dim \in DOMAIN run.y_vals :
      \A k \in DOMAIN run.y_vals[dim] :
        LET x == SweptDomain(dim)[k]
            i == InputsWith(dim, x)
        IN /\ run.y_vals[dim][k]
                = predict(script, run.base_sales, holiday, i.temperature,
                          i.fuel_price, i.cpi, i.unemployment)
           /\ (x = CurrentValue(dim) => run.y_vals[dim][k] = run.predicted_sales)

\* A fuel-price curve of the sel script has been plotted with the slider at
\* 5.0, the last point of its swept domain.
C3_Witness ==
  /\ HasBaseline
  /\ run.base_sales > 0
  /\ script = "sel"
  /\ param_choice = "Fuel Price"
  /\ fuel_price = F(5)
  /\ SweptDomain("Fuel Price")[49] = fuel_price
  /\ run.y_vals["Fuel Price"][49] = run.predicted_sales
  /\ run.y_vals["Fuel Price"][0] # run.predicted_sales

\* C4: under Variant A, predict at holiday = false, temperature 70, fuel price
\* 3.5, CPI 220, unemployment 7 returns exactly the baseline, each factor
\* being 1.0 there.
C4_ReferenceIsBaseline ==
  (call.fn = "predict"
     /\ SubSeq(call.args, 2, 6) = <<FALSE, F(70), Milli(3500), F(220), F(7)>>)
    => /\ call.ret = call.args[1]
       /\ get_temp_factor(call.script, F(70)) = F(1)
       /\ fuel_factor(call.script, Milli(3500)) = F(1)

C4_Witness ==
  /\ call.fn = "predict"
  /\ SubSeq(call.args, 2, 6) = <<FALSE, F(70), Milli(3500), F(220), F(7)>>
  /\ call.args[1] = 1234567 * 3
  /\ call.ret = 1234567 * 3

\* C5 (as claimed): Variant B is selectable by configuration.  The only
\* configuration either script reads beside the history table is the model
\* artefact loaded by load_ml_model; with it loaded, predicted sales are
\* baseline + 6634.0369 [holiday] - 196.8391 (t - 70)^2 + 11830.0 fuel_price
\* - 9.8499 cpi - 418.9919 unemployment (stated where the value fits the
\* number grid: within 30 degrees of 70).
C5_VariantBWhenConfigured ==
  (HasBaseline /\ ml_model = "loaded"
     /\ temperature >= F(40) /\ temperature <= F(100))
    => run.predicted_sales
         = VariantB(run.base_sales, holiday, temperature, fuel_price, cpi,
                    unemployment)

\* C6: after any sequence of reruns, the result a completed run shows is the
\* function of that run's own store and inputs: its baseline is the mean of
\* the selected store's history and its prediction is predict of that
\* baseline and the current inputs, so equal arguments give equal results and
\* nothing is left over from an earlier run.
C6_ResultIsCurrent ==
  (Completed /\ Len(store_df(df, store_id)) > 0)
    => /\ run.base_sales = mean(store_df(df, store_id))
       /\ run.predicted_sales
            = predict(script, run.base_sales, holiday, temperature, fuel_price,
                      cpi, unemployment)

\* A run after the store and several inputs were changed.
C6_Witness ==
  /\ Completed
  /\ run.base_sales > 0
  /\ store_id # value(script, df)
  /\ holiday
  /\ temperature # F(70)
  /\ unemployment # F(7)
  /\ run.predicted_sales # run.base_sales

\* C7: Variant A's temperature factor is symmetric about 70, is 1.0 at 70, and
\* is below 1.0 and strictly decreasing in |t - 70| elsewhere.
C7_TemperatureFactorShape ==
  call.fn = "get_temp_factor" =>
    LET t == call.args[1]
        dist(x) == IF x >= F(70) THEN x - F(70) ELSE F(70) - x
    IN /\ call.ret = get_temp_factor(call.script, F(140) - t)
       /\ (t = F(70) => call.ret = F(1))
       /\ (t # F(70) => call.ret < F(1))
       /\ \A t2 \in TempFnDomain :
            dist(t2) > dist(t) => get_temp_factor(call.script, t2) < call.ret

C7_Witness ==
  /\ call.fn = "get_temp_factor"
  /\ call.args[1] = F(120)
  /\ call.ret > 0
  /\ call.ret < F(1)

\* C8: the store id a run selects the history with, the default of the first
\* run included, lies within the smallest and largest store id of the table.
C8_StoreIdInObservedRange ==
  /\ run.pc \in {"done", "stopped"} =>
       /\ \E j \in DOMAIN df : df[j].Store <= store_id
       /\ \E j \in DOMAIN df : df[j].Store >= store_id
  /\ run.pc = "exception" => (store_id = Unset /\ run.base_sales = Unset)

\* A completed run of the sel script on the largest store of the table,
\* picked by the user (the default is the first row's store, another one).
C8_Witness ==
  /\ run.pc = "done"
  /\ script = "sel"
  /\ store_id = max_value(df)
  /\ store_id # min_value(df)
  /\ df[1].Store # store_id

\* C9 (as claimed): the fuel factor is not clamped, is negative for every
\* fuel price >= 23.5 and non-negative for every fuel price < 23.5.
C9_NegativeFrom23_5 ==
  call.fn = "fuel_factor" =>
    /\ (call.args[1] >= Milli(23500) => call.ret < 0)
    /\ (call.args[1] < Milli(23500) => call.ret >= 0)

\* C9 (amended): the fuel factor is 1 - (f - 3.5) x 0.05 unclamped: negative
\* for every fuel price above 23.5, zero at 23.5, positive below.
C9_NegativeAbove23_5 ==
  call.fn = "fuel_factor" =>
    /\ call.ret = F(1) - (call.args[1] - Milli(3500)) \div 20
    /\ (call.args[1] > Milli(23500) => call.ret < 0)
    /\ (call.args[1] = Milli(23500) => call.ret = 0)
    /\ (call.args[1] < Milli(23500) => call.ret > 0)

C9_Witness ==
  /\ call.fn = "fuel_factor"
  /\ call.args[1] = Milli(23600)
  /\ call.ret = -Milli(5)

\* C10: with a positive baseline, the prediction of a run and every point of
\* every curve it plots are positive.
C10_PositiveSales ==
  (HasBaseline /\ run.base_sales > 0)
    => /\ run.predicted_sales > 0
       /\ \A dim \in DOMAIN run.y_vals :
            \A k \in DOMAIN run.y_vals[dim] : run.y_vals[dim][k] > 0

\* The grid script's run with every slider where its factor is smallest.
C10_Witness ==
  /\ HasBaseline
  /\ run.base_sales > 0
  /\ script = "grid"
  /\ ~holiday
  /\ temperature = F(120)
  /\ fuel_price = F(5)
  /\ cpi = F(200)
  /\ unemployment = F(15)
  /\ run.predicted_sales > 0
  /\ run.predicted_sales < run.base_sales
  /\ run.y_vals["Temperature"][0] < run.predicted_sales

====
